---- MODULE Spec2Model ----
(* Pumphouse.ino: a mesh gateway node.  setup() joins the mesh and counts *)
(* the OneWire sensors; loop() supervises the mesh connection, answers at *)
(* most one HTTP-like request per iteration and feeds the watchdog.       *)
(* Bytes are one-character strings; temperatures are integers in          *)
(* sixteenths of a degree Celsius (the 12-bit resolution set in setup()). *)
EXTENDS Integers, Sequences, FiniteSets, TLC

(***************************************************************************)
(* Program constants                                                       *)
(***************************************************************************)
MESH_CHECK_INTERVAL == 15000
HTTP_BUFFER_SIZE == 400
\* a uint32_t (millis(), mesh_timer) is kept as two 16-bit halves
Half == 65536
\* WDTO_500MS and WDTO_8S in milliseconds
WDTO_500MS == 500
WDTO_8S == 8000
\* number of entries of tempSensors[], tempSensorNames[], temperatureReadings[]
NumKnownSensors == 3
\* the calibration of sensor 2: 0.9375 degrees = 15 sixteenths
IntakeCorrection == 15

(***************************************************************************)
(* Bounds of the model                                                     *)
(***************************************************************************)
\* largest device count bus discovery reports
MaxDevices == 4
\* clock advances the environment makes
MaxTicks == 4
\* connections the clients open
MaxConns == 1

(***************************************************************************)
(* Bytes                                                                   *)
(***************************************************************************)
NUL == "NUL"
SP == " "
CR == "CR"
LF == "LF"

\* 80 bytes
Header200 ==
  <<"H", "T", "T", "P", "/", "1", ".", "1", SP, "2", "0", "0", SP, "O", "K",
    SP, CR, LF, "C", "o", "n", "t", "e", "n", "t", "-", "T", "y", "p", "e",
    ":", SP, "t", "e", "x", "t", "/", "p", "l", "a", "i", "n", SP, CR, LF,
    "C", "o", "n", "n", "e", "c", "t", "i", "o", "n", ":", SP, "c", "l", "o",
    "s", "e", SP, CR, LF, "R", "e", "f", "r", "e", "s", "h", ":", SP, "5",
    SP, CR, LF, CR, LF>>

\* 49 bytes
Resp431 ==
  <<"H", "T", "T", "P", "/", "1", ".", "1", SP, "4", "3", "1", SP, "R", "e",
    "q", "u", "e", "s", "t", SP, "H", "e", "a", "d", "e", "r", SP, "F", "i",
    "e", "l", "d", "s", SP, "T", "o", "o", SP, "L", "a", "r", "g", "e", SP,
    CR, LF, CR, LF>>

\* 36 bytes
Resp405 ==
  <<"H", "T", "T", "P", "/", "1", ".", "1", SP, "4", "0", "5", SP, "M", "e",
    "t", "h", "o", "d", SP, "N", "o", "t", SP, "A", "l", "l", "o", "w", "e",
    "d", SP, CR, LF, CR, LF>>

\* 78 bytes
Resp501 ==
  <<"H", "T", "T", "P", "/", "1", ".", "1", SP, "5", "0", "1", SP, "N", "o",
    "t", SP, "I", "m", "p", "l", "e", "m", "e", "n", "t", "e", "d", SP, CR,
    LF, CR, LF, "O", "n", "l", "y", SP, "t", "e", "m", "p", "e", "r", "a",
    "t", "u", "r", "e", "(", "/", "t", "e", "m", "p", ")", SP, "r", "e", "q",
    "u", "e", "s", "t", "s", SP, "s", "u", "p", "p", "o", "r", "t", "e", "d",
    ".", CR, LF>>

\* 31 bytes
Resp520 ==
  <<"H", "T", "T", "P", "/", "1", ".", "1", SP, "5", "2", "0", SP, "U", "n",
    "k", "n", "o", "w", "n", SP, "E", "r", "r", "o", "r", SP, CR, LF, CR, LF>>

\* 12 bytes
LakeWater ==
  <<"L", "a", "k", "e", SP, "W", "a", "t", "e", "r", ":", SP>>

\* 13 bytes
OutsideAir ==
  <<"O", "u", "t", "s", "i", "d", "e", SP, "A", "i", "r", ":", SP>>

\* 13 bytes
IntakePipe ==
  <<"I", "n", "t", "a", "k", "e", SP, "P", "i", "p", "e", ":", SP>>

\* 22 bytes
ReqGetTemp ==
  <<"G", "E", "T", SP, "/", "t", "e", "m", "p", SP, "H", "T", "T", "P", "/",
    "1", ".", "1", CR, LF, CR, LF>>

\* 9 bytes
ReqGetTempBare ==
  <<"G", "E", "T", SP, "/", "t", "e", "m", "p">>

\* 8 bytes
ReqGetTem ==
  <<"G", "E", "T", SP, "/", "t", "e", "m">>

\* 23 bytes
ReqGetOther ==
  <<"G", "E", "T", SP, "/", "o", "t", "h", "e", "r", SP, "H", "T", "T", "P",
    "/", "1", ".", "1", CR, LF, CR, LF>>

\* 3 bytes
ReqGetOnly ==
  <<"G", "E", "T">>

\* 4 bytes
ReqGetSpace ==
  <<"G", "E", "T", SP>>

\* 23 bytes
ReqPostTemp ==
  <<"P", "O", "S", "T", SP, "/", "t", "e", "m", "p", SP, "H", "T", "T", "P",
    "/", "1", ".", "1", CR, LF, CR, LF>>

\* 22 bytes
ReqPostGet ==
  <<"P", "O", "S", "T", SP, "/", "G", "E", "T", SP, "H", "T", "T", "P", "/",
    "1", ".", "1", CR, LF, CR, LF>>

\* 23 bytes
ReqXGetTemp ==
  <<"X", "G", "E", "T", SP, "/", "t", "e", "m", "p", SP, "H", "T", "T", "P",
    "/", "1", ".", "1", CR, LF, CR, LF>>

\* 34 bytes
ReqHeaderGet ==
  <<"P", "U", "T", SP, "/", "x", SP, "H", "T", "T", "P", "/", "1", ".", "1",
    CR, LF, "X", ":", SP, "G", "E", "T", SP, "/", "t", "e", "m", "p", SP, CR,
    LF, CR, LF>>

\* 5 bytes
ReqPut ==
  <<"P", "U", "T", SP, "/">>

\* 22 bytes
LeftPutTemp ==
  <<"P", "U", "T", SP, "/", "t", "e", "m", "p", SP, "H", "T", "T", "P", "/",
    "1", ".", "1", CR, LF, CR, LF>>

\* 23 bytes
LeftGetOther ==
  <<"G", "E", "T", NUL, "/", "o", "t", "h", "e", "r", NUL, "H", "T", "T",
    "P", "/", "1", ".", "1", CR, LF, CR, LF>>

GET == <<"G", "E", "T">>
TEMP == <<"/", "t", "e", "m", "p">>
BAR == <<"|">>
CRLF == <<CR, LF>>
Digit == <<"0", "1", "2", "3", "4", "5", "6", "7", "8", "9">>

Fill(c, n) == [i \in 1..n |-> c]
Max(a, b) == IF a > b THEN a ELSE b

(***************************************************************************)
(* uint32_t arithmetic, modulo 2^32                                        *)
(***************************************************************************)
U32(hi, lo) == [hi |-> hi, lo |-> lo]
U32Zero == U32(0, 0)
\* x + d, for 0 <= d < 2^16
U32Add(x, d) ==
  LET s == x.lo + d
  IN U32((x.hi + (s \div Half)) % Half, s % Half)
\* x - y
U32Sub(x, y) ==
  LET l == x.lo - y.lo
      borrow == IF l < 0 THEN 1 ELSE 0
  IN U32((x.hi - y.hi - borrow) % Half, l % Half)
\* x > n, for 0 <= n < 2^16
U32Greater(x, n) == x.hi > 0 \/ x.lo > n

(***************************************************************************)
(* The C string functions on a memory image m.  The image starts at        *)
(* buf[0]: m[1..HTTP_BUFFER_SIZE] is buf and the bytes after it are the    *)
(* stack above buf.  Every byte after the last one written down in m is    *)
(* zero.  A pointer is an index into m; the null pointer is 0.             *)
(***************************************************************************)
Least(S) == CHOOSE x \in S : \A y \in S : x <= y

\* m with byte b stored at index i
Poke(m, i, b) ==
  IF i <= Len(m) THEN [m EXCEPT ![i] = b]
  ELSE m \o Fill(NUL, i - 1 - Len(m)) \o <<b>>

\* the index of the NUL that ends the C string at p
StrEnd(m, p) ==
  LET nuls == {i \in p..Len(m) : m[i] = NUL}
  IN IF nuls = {} THEN Max(p, Len(m) + 1) ELSE Least(nuls)

strlen(m, p) == StrEnd(m, p) - p

CString(m, p) == SubSeq(m, p, StrEnd(m, p) - 1)

MatchAt(m, p, s) ==
  \A k \in 1..Len(s) : p + k - 1 <= Len(m) /\ m[p + k - 1] = s[k]

\* the first occurrence of needle in the C string at p, or 0
strstr(m, p, needle) ==
  LET hits == {i \in p..(StrEnd(m, p) - 1) : MatchAt(m, i, needle)}
  IN IF hits = {} THEN 0 ELSE Least(hits)

\* strsep(&stringp, d): the token, the advanced stringp, the memory with the
\* delimiter overwritten by NUL
strsep(m, stringp, d) ==
  IF stringp = 0 THEN [token |-> 0, stringp |-> 0, mem |-> m]
  ELSE LET delims == {i \in stringp..(StrEnd(m, stringp) - 1) : m[i] = d}
       IN IF delims = {} THEN [token |-> stringp, stringp |-> 0, mem |-> m]
          ELSE [token |-> stringp, stringp |-> Least(delims) + 1,
                mem |-> Poke(m, Least(delims), NUL)]

\* strcmp(p, s) == 0, for a non-null p
strcmpEq(m, p, s) == CString(m, p) = s

\* strcpy(buf, s): line 260 and the lines after it read buf only up to its
\* terminator, so the image is cut there
strcpy(s) == s \o <<NUL>>

\* strcat(buf, s): s and a NUL stored from the terminator of buf on
strcat(m, s) ==
  SubSeq(m, 1, StrEnd(m, 1) - 1) \o s \o <<NUL>>
    \o SubSeq(m, StrEnd(m, 1) + Len(s) + 1, Len(m))

RECURSIVE Decimal(_)
Decimal(n) ==
  IF n < 10 THEN <<Digit[n + 1]>>
  ELSE Append(Decimal(n \div 10), Digit[(n % 10) + 1])

\* dtostrf(value, 0, 5, fltStr) of a value given in sixteenths of a degree
dtostrf(v) ==
  LET a == IF v < 0 THEN 0 - v ELSE v
      frac == Decimal((a % 16) * 6250)
  IN (IF v < 0 THEN <<"-">> ELSE <<>>) \o Decimal(a \div 16) \o <<".">>
       \o Fill("0", 5 - Len(frac)) \o frac

(***************************************************************************)
(* The sensor tables                                                       *)
(***************************************************************************)
tempSensorNames == <<LakeWater, OutsideAir, IntakePipe>>
KnownSensors == 0..(NumKnownSensors - 1)
\* what the bus yields for a sensor that does not answer: -127 degrees
Unreachable == 0 - 2032
\* what the bus returns for a connected sensor, in sixteenths of a degree
RawReadings == {0 - 17}
\* one reading per known sensor, or Unreachable
BusStates == [KnownSensors -> RawReadings \cup {Unreachable}]
\* what lies behind the three tables when they are indexed past their end
WildLabels == {<<"?">>}
WildReadings == {0, 0 - 1}
Wilds == [label : WildLabels, reading : WildReadings]

\* lines 161-180
saveTemperature(T, sensorId, bus) ==
  IF sensorId \in KnownSensors
  THEN IF bus[sensorId] # Unreachable
       THEN LET tempC == IF sensorId = 2 THEN bus[sensorId] - IntakeCorrection
                         ELSE bus[sensorId]
            IN [T EXCEPT ![sensorId] = tempC]
       ELSE T
  ELSE T

SensorName(i, wild) ==
  IF i \in KnownSensors THEN tempSensorNames[i + 1] ELSE wild.label

SensorReading(T, i, wild) ==
  IF i \in KnownSensors THEN T[i] ELSE wild.reading

(***************************************************************************)
(* The request handler, lines 200-310                                      *)
(***************************************************************************)
\* line 212: int dataToRead = client.waitAvailable() > 0
DataToRead(available) == IF available > 0 THEN 1 ELSE 0

\* the pass as it would be without line 219: the overflow branch records the
\* error and leaves the loop, but evalInput stays true
PassKeepsEval(s, available, byte) ==
  IF s.done THEN s
  ELSE LET dataToRead == DataToRead(available)
       IN IF dataToRead = 0 THEN [s EXCEPT !.done = TRUE]
          ELSE IF dataToRead <= HTTP_BUFFER_SIZE - s.idx
               THEN [s EXCEPT !.mem = Poke(s.mem, s.idx + 1, byte),
                              !.idx = s.idx + dataToRead]
               ELSE [s EXCEPT !.error_type = "ERR_BUF_OVERFLOW",
                              !.done = TRUE]

\* one pass of the while loop, lines 212-222: available is what
\* waitAvailable() returns and byte is what client.read() stores
Pass(s, available, byte) ==
  IF s.done THEN s
  ELSE LET dataToRead == DataToRead(available)
       IN IF dataToRead = 0 THEN [s EXCEPT !.done = TRUE]
          ELSE IF dataToRead <= HTTP_BUFFER_SIZE - s.idx
               THEN [s EXCEPT !.mem = Poke(s.mem, s.idx + 1, byte),
                              !.idx = s.idx + dataToRead]
               ELSE [s EXCEPT !.evalInput = FALSE,
                              !.error_type = "ERR_BUF_OVERFLOW",
                              !.done = TRUE]

RECURSIVE Passes(_, _, _, _)
\* passes lo..hi of the loop, one after the other: the first half of them,
\* then the rest; pass k finds the bytes req[k..] waiting
Passes(s, req, lo, hi) ==
  IF s.done \/ lo > hi THEN s
  ELSE IF lo = hi
       THEN Pass(s, Len(req) - lo + 1,
                 IF lo <= Len(req) THEN req[lo] ELSE NUL)
       ELSE Passes(Passes(s, req, lo, (lo + hi) \div 2), req,
                   ((lo + hi) \div 2) + 1, hi)

\* lines 202-222: the locals when the loop is left; the pass after the last
\* byte finds nothing waiting
ReadLoop(stale, req) ==
  Passes([mem |-> stale, idx |-> 0, evalInput |-> TRUE,
          error_type |-> "ERR_UNKNOWN", done |-> FALSE],
         req, 1, Len(req) + 1)

\* lines 228-249 without the else of lines 242-244: a path other than /temp
\* leaves error_type as it was initialised
EvalInputSilentMismatch(m, nullcmp) ==
  LET gettype == strstr(m, 1, GET)
  IN IF gettype # 0
     THEN LET first == strsep(m, gettype, SP)
              second == strsep(first.mem, first.stringp, SP)
              addr == second.token
              same == IF addr = 0 THEN nullcmp
                      ELSE strcmpEq(second.mem, addr, TEMP)
          IN [transmit |-> same,
              error_type |-> "ERR_UNKNOWN",
              mem |-> second.mem,
              events |-> <<"strstr", "strsep", "strsep",
                           IF addr = 0 THEN "strcmp_null" ELSE "strcmp">>]
     ELSE [transmit |-> FALSE, error_type |-> "ERROR_NOT_GET_REQ",
           mem |-> m, events |-> <<"strstr">>]

\* lines 228-249; nullcmp is what strcmp yields when addr is the null pointer
EvalInput(m, nullcmp) ==
  LET gettype == strstr(m, 1, GET)
  IN IF gettype # 0
     THEN LET first == strsep(m, gettype, SP)
              second == strsep(first.mem, first.stringp, SP)
              addr == second.token
              same == IF addr = 0 THEN nullcmp
                      ELSE strcmpEq(second.mem, addr, TEMP)
          IN [transmit |-> same,
              error_type |-> IF same THEN "ERR_UNKNOWN"
                             ELSE "ERROR_NOT_TEMP_REQ",
              mem |-> second.mem,
              events |-> <<"strstr", "strsep", "strsep",
                           IF addr = 0 THEN "strcmp_null" ELSE "strcmp">>]
     ELSE [transmit |-> FALSE, error_type |-> "ERROR_NOT_GET_REQ",
           mem |-> m, events |-> <<"strstr">>]

\* lines 202-249: the locals after reading and evaluating
Classify(req, stale, nullcmp) ==
  LET rd == ReadLoop(stale, req)
  IN IF rd.evalInput
     THEN LET ev == EvalInput(rd.mem, nullcmp)
          IN [idx |-> rd.idx, evalInput |-> TRUE, transmit |-> ev.transmit,
              error_type |-> ev.error_type, mem |-> ev.mem,
              events |-> <<"read", "flush">> \o ev.events]
     ELSE [idx |-> rd.idx, evalInput |-> FALSE, transmit |-> FALSE,
           error_type |-> rd.error_type, mem |-> rd.mem,
           events |-> <<"read", "flush">>]

\* lines 292-307
ErrorResponse(error_type) ==
  CASE error_type = "ERR_BUF_OVERFLOW" -> Resp431
    [] error_type = "ERROR_NOT_GET_REQ" -> Resp405
    [] error_type = "ERROR_NOT_TEMP_REQ" -> Resp501
    [] OTHER -> Resp520

RECURSIVE SensorLoop(_, _, _, _, _)
\* lines 263-281, from index i on; s holds buf, the readings and the calls
SensorLoop(i, n, s, bus, wild) ==
  IF ~(i < n) THEN s
  ELSE SensorLoop(
         i + 1, n,
         [mem |-> strcat(
                    strcat(
                      strcat(s.mem, SensorName(i, wild)),
                      dtostrf(SensorReading(
                                saveTemperature(s.readings, i, bus), i, wild))),
                    IF i < n - 1 THEN BAR ELSE <<>>),
          readings |-> saveTemperature(s.readings, i, bus),
          events |-> Append(s.events,
                            IF i \in KnownSensors THEN "save"
                            ELSE "save_wild")],
         bus, wild)

\* lines 252-285 with dtostrf() taken of the readings as they were before
\* saveTemperature() ran
BuildResponseEarlyFormat(n, T, bus, wild) ==
  LET body == SensorLoop(0, n,
                         [mem |-> strcpy(Header200), readings |-> T,
                          events |-> <<"requestTemperatures", "strcpy">>],
                         bus, wild)
      text == SensorLoop(0, n,
                         [mem |-> strcpy(Header200), readings |-> T,
                          events |-> <<>>],
                         [i \in KnownSensors |-> Unreachable], wild)
  IN [mem |-> strcat(text.mem, CRLF), readings |-> body.readings,
      events |-> body.events]

\* lines 252-285: the buffer and the readings when the response is complete
BuildResponse(n, T, bus, wild) ==
  LET body == SensorLoop(0, n,
                         [mem |-> strcpy(Header200), readings |-> T,
                          events |-> <<"requestTemperatures", "strcpy">>],
                         bus, wild)
  IN [mem |-> strcat(body.mem, CRLF), readings |-> body.readings,
      events |-> body.events]

(***************************************************************************)
(* State                                                                   *)
(***************************************************************************)
VARIABLES
  pc,                     \* where setup() or loop() stands
  clock,                  \* millis()
  mesh_timer,
  led,                    \* LED_PIN
  wdt,                    \* the watchdog: "off", "500ms" or "8s"
  wdtElapsed,             \* milliseconds since the watchdog was armed or reset
  failureDetected,        \* radio.failureDetected
  numberOfOneWireDevices,
  temperatureReadings,
  request,                \* the bytes of the connection served in this iteration
  bus,                    \* what the sensors answered during this iteration
  idx, evalInput, transmit, error_type,
  written,                \* the bytes written to the client
  stopped,                \* client.stop() was called
  trace,                  \* the calls of the current iteration, in order
  sinceProbe,             \* milliseconds since mesh.checkConnection() was
                          \* last called, not wrapped; -1 before the first call
  lastGap,                \* milliseconds between its last two calls, or -1
  ticksLeft, connsLeft

vars == <<pc, clock, mesh_timer, led, wdt, wdtElapsed, failureDetected,
          numberOfOneWireDevices, temperatureReadings, request, bus, idx,
          evalInput, transmit, error_type, written, stopped, trace,
          sinceProbe, lastGap, ticksLeft, connsLeft>>

conn == <<request, bus, idx, evalInput, transmit, error_type, written,
          stopped>>
probes == <<sinceProbe, lastGap>>
budget == <<ticksLeft, connsLeft>>

NoRequest == <<"none">>
NoBus == [i \in KnownSensors |-> Unreachable]

\* no connection is being served
ConnIdle ==
  /\ request = NoRequest
  /\ bus = NoBus
  /\ idx = 0
  /\ evalInput = TRUE
  /\ transmit = FALSE
  /\ error_type = "ERR_UNKNOWN"
  /\ written = <<>>
  /\ stopped = FALSE

\* the machine after reset, before setup() runs
PowerOn ==
  /\ pc = "boot"
  /\ clock = U32Zero
  /\ mesh_timer = U32Zero
  /\ led = "LOW"
  /\ wdt = "off"
  /\ wdtElapsed = 0
  /\ failureDetected = FALSE
  /\ numberOfOneWireDevices = 0
  /\ temperatureReadings = [i \in KnownSensors |-> 0]
  /\ ConnIdle
  /\ trace = <<>>
  /\ sinceProbe = 0 - 1
  /\ lastGap = 0 - 1

Init ==
  /\ PowerOn
  /\ ticksLeft = MaxTicks
  /\ connsLeft = MaxConns

Timeout == IF wdt = "500ms" THEN WDTO_500MS ELSE WDTO_8S
\* the watchdog has run out: the processor is being reset
Expired == wdt # "off" /\ wdtElapsed >= Timeout

(***************************************************************************)
(* The environment's inputs                                                *)
(***************************************************************************)
\* how far the clock moves in one step of the environment
TickSteps == {7500, 7501}
CoarseSteps == {7501}
DeviceCounts == 0..MaxDevices

ReqEmpty == <<>>
\* a request that fills buf to its last byte, and one that is a byte longer
ReqFull == ReqGetTemp \o Fill("x", HTTP_BUFFER_SIZE - Len(ReqGetTemp))
ReqOver == ReqGetTemp \o Fill("x", HTTP_BUFFER_SIZE + 1 - Len(ReqGetTemp))

Requests ==
  <<ReqEmpty, ReqGetTemp, ReqGetTempBare, ReqGetTem, ReqGetOther, ReqGetOnly,
    ReqGetSpace, ReqPostTemp, ReqPostGet, ReqXGetTemp, ReqHeaderGet, ReqPut,
    ReqFull, ReqOver>>

\* buf is declared without an initializer (line 209) and nothing ever stores
\* a terminator: what follows the bytes read is what the stack held before.
\* Each image gives the bytes from buf[0] on; zeros follow.
StaleImages ==
  <<<<>>,
    LeftPutTemp,
    LeftGetOther,
    Fill("x", HTTP_BUFFER_SIZE),
    Fill("x", HTTP_BUFFER_SIZE) \o <<SP>>>>

\* the locals the rest of the handler reads
Verdict(c) ==
  [idx |-> c.idx, evalInput |-> c.evalInput, transmit |-> c.transmit,
   error_type |-> c.error_type, events |-> c.events]

\* for each request, what Classify can make of it: one verdict for every
\* image and every strcmp result the environment offers
Verdicts ==
  [q \in DOMAIN Requests |->
     {Verdict(Classify(Requests[q], StaleImages[st], nullcmp)) :
        st \in DOMAIN StaleImages, nullcmp \in BOOLEAN}]

WildsFor(n) ==
  IF n > NumKnownSensors THEN Wilds
  ELSE {[label |-> <<"?">>, reading |-> 0]}

(***************************************************************************)
(* setup(), lines 63-146                                                   *)
(***************************************************************************)
\* lines 63-92 without lines 86-87: a failed mesh.begin() is only reported
\* and setup() goes on
SetupBeginGoesOn(ok) ==
  /\ pc = "boot"
  /\ led' = IF ok THEN "HIGH" ELSE "LOW"
  /\ wdt' = "off"
  /\ wdtElapsed' = 0
  /\ pc' = "sensors"
  /\ trace' = IF ok THEN <<"wdt_disable", "led_low", "mesh_begin", "led_high">>
               ELSE <<"wdt_disable", "led_low", "mesh_begin">>
  /\ UNCHANGED <<clock, mesh_timer, failureDetected, numberOfOneWireDevices,
                 temperatureReadings, conn, probes, budget>>

\* lines 63-92: wdt_disable, LED off, mesh.begin
SetupBegin(ok) ==
  /\ pc = "boot"
  /\ led' = IF ok THEN "HIGH" ELSE "LOW"
  /\ wdt' = IF ok THEN "off" ELSE "500ms"
  /\ wdtElapsed' = 0
  /\ pc' = IF ok THEN "sensors" ELSE "delay"
  /\ trace' = <<"wdt_disable", "led_low", "mesh_begin",
                IF ok THEN "led_high" ELSE "wdt_enable">>
  /\ UNCHANGED <<clock, mesh_timer, failureDetected, numberOfOneWireDevices,
                 temperatureReadings, conn, probes, budget>>

\* lines 94-146: the device count, then wdt_enable(WDTO_8S)
SetupSensors(n) ==
  /\ pc = "sensors"
  /\ numberOfOneWireDevices' = n
  /\ wdt' = "8s"
  /\ wdtElapsed' = 0
  /\ pc' = "loop"
  /\ trace' = <<>>
  /\ UNCHANGED <<clock, mesh_timer, led, failureDetected,
                 temperatureReadings, conn, probes, budget>>

(***************************************************************************)
(* Time and the watchdog hardware                                          *)
(***************************************************************************)
\* d milliseconds pass while the program waits: in delay(1000) (line 87),
\* between two iterations of loop(), or inside mesh.renewAddress()
Tick(d) ==
  /\ pc \in {"delay", "loop", "renew"}
  /\ ~Expired
  /\ ticksLeft > 0
  /\ ticksLeft' = ticksLeft - 1
  /\ clock' = U32Add(clock, d)
  /\ sinceProbe' = IF sinceProbe < 0 THEN sinceProbe ELSE sinceProbe + d
  /\ wdtElapsed' = IF wdt = "off" THEN 0
                   ELSE IF wdtElapsed + d > Timeout THEN Timeout
                   ELSE wdtElapsed + d
  /\ UNCHANGED <<pc, mesh_timer, led, wdt, failureDetected,
                 numberOfOneWireDevices, temperatureReadings, conn, trace,
                 lastGap, connsLeft>>

\* the watchdog resets the processor: every global is initialised again
WatchdogFire ==
  /\ Expired
  /\ pc' = "boot"
  /\ clock' = U32Zero
  /\ mesh_timer' = U32Zero
  /\ led' = "LOW"
  /\ wdt' = "off"
  /\ wdtElapsed' = 0
  /\ failureDetected' = FALSE
  /\ numberOfOneWireDevices' = 0
  /\ temperatureReadings' = [i \in KnownSensors |-> 0]
  /\ request' = NoRequest
  /\ bus' = NoBus
  /\ idx' = 0
  /\ evalInput' = TRUE
  /\ transmit' = FALSE
  /\ error_type' = "ERR_UNKNOWN"
  /\ written' = <<>>
  /\ stopped' = FALSE
  /\ trace' = <<>>
  /\ sinceProbe' = 0 - 1
  /\ lastGap' = 0 - 1
  /\ UNCHANGED budget

\* the radio driver raises its failure flag; nothing in the sketch clears it
RadioFailure ==
  /\ pc \in {"due", "renew", "server"}
  /\ ~Expired
  /\ ~failureDetected
  /\ failureDetected' = TRUE
  /\ UNCHANGED <<pc, clock, mesh_timer, led, wdt, wdtElapsed,
                 numberOfOneWireDevices, temperatureReadings, conn, trace,
                 probes, budget>>

(***************************************************************************)
(* loop(), lines 183-315                                                   *)
(***************************************************************************)
\* the comparison as millis() > mesh_timer + MESH_CHECK_INTERVAL: the sum
\* wraps, the difference is never taken
MeshDueBySum(millis, timer) ==
  LET due == U32Add(timer, MESH_CHECK_INTERVAL)
  IN millis.hi > due.hi \/ (millis.hi = due.hi /\ millis.lo > due.lo)

\* line 186: millis() - mesh_timer > MESH_CHECK_INTERVAL
MeshDue(millis, timer) ==
  U32Greater(U32Sub(millis, timer), MESH_CHECK_INTERVAL)

\* line 186
LoopTimer ==
  /\ pc = "loop"
  /\ ~Expired
  /\ pc' = IF MeshDue(clock, mesh_timer) THEN "due" ELSE "server"
  /\ trace' = <<"timer">>
  /\ UNCHANGED <<clock, mesh_timer, led, wdt, wdtElapsed, failureDetected,
                 numberOfOneWireDevices, temperatureReadings, conn,
                 probes, budget>>

\* lines 187-196 without line 190: the LED is left as it is when the check
\* fails
ProbeLedStays(ok) ==
  /\ pc = "due"
  /\ ~Expired
  /\ mesh_timer' = clock
  /\ lastGap' = sinceProbe
  /\ sinceProbe' = 0
  /\ led' = IF ok THEN "HIGH" ELSE led
  /\ pc' = IF ok THEN "server" ELSE "renew"
  /\ trace' = trace \o (IF ok THEN <<"checkConnection", "led_high">>
                        ELSE <<"checkConnection", "renewAddress">>)
  /\ UNCHANGED <<clock, wdt, wdtElapsed, failureDetected,
                 numberOfOneWireDevices, temperatureReadings, conn,
                 budget>>

\* lines 187-196, up to the call of mesh.renewAddress()
Probe(ok) ==
  /\ pc = "due"
  /\ ~Expired
  /\ mesh_timer' = clock
  /\ lastGap' = sinceProbe
  /\ sinceProbe' = 0
  /\ led' = IF ok THEN "HIGH" ELSE "LOW"
  /\ pc' = IF ok THEN "server" ELSE "renew"
  /\ trace' = trace \o (IF ok THEN <<"checkConnection", "led_high">>
                        ELSE <<"checkConnection", "led_low", "renewAddress">>)
  /\ UNCHANGED <<clock, wdt, wdtElapsed, failureDetected,
                 numberOfOneWireDevices, temperatureReadings, conn,
                 budget>>

\* lines 191-192: mesh.renewAddress() returns
RenewReturn ==
  /\ pc = "renew"
  /\ ~Expired
  /\ led' = "HIGH"
  /\ pc' = "server"
  /\ trace' = trace \o <<"renewed", "led_high">>
  /\ UNCHANGED <<clock, mesh_timer, wdt, wdtElapsed, failureDetected,
                 numberOfOneWireDevices, temperatureReadings, conn,
                 probes, budget>>

\* line 200: server.available() has no client
NoClient ==
  /\ pc = "server"
  /\ ~Expired
  /\ pc' = "wdt"
  /\ trace' = Append(trace, "available")
  /\ UNCHANGED <<clock, mesh_timer, led, wdt, wdtElapsed, failureDetected,
                 numberOfOneWireDevices, temperatureReadings, conn,
                 probes, budget>>

\* lines 252-309 with sensors.requestTemperatures() and the sensor loop moved
\* in front of the test of transmit
RespondRefreshing(c, T, built) ==
  [readings |-> built.readings,
   written |-> IF c.transmit THEN SubSeq(built.mem, 1, strlen(built.mem, 1))
               ELSE ErrorResponse(c.error_type),
   events |-> built.events \o <<"write", "stop">>]

\* lines 252-309: what is sent, and the readings afterwards; built is what
\* lines 253-283 make of buf and of the readings when they run
Respond(c, T, built) ==
  IF c.transmit
  THEN [readings |-> built.readings,
        written |-> SubSeq(built.mem, 1, strlen(built.mem, 1)),
        events |-> built.events \o <<"write", "stop">>]
  ELSE [readings |-> T,
        written |-> ErrorResponse(c.error_type),
        events |-> <<"write", "stop">>]

\* lines 200-310: a client is waiting with one of the requests numbered in Q.
\* b is what the sensors answer and wild what lies behind the tables; an
\* error response consults neither, so one choice of them stands for all
ServiceClient(Q) ==
  /\ pc = "server"
  /\ ~Expired
  /\ connsLeft > 0
  /\ \E b \in BusStates, wild \in WildsFor(numberOfOneWireDevices) :
       \E built \in {BuildResponse(numberOfOneWireDevices,
                                   temperatureReadings, b, wild)} :
         \E q \in Q :
           \E c \in Verdicts[q] :
             /\ c.transmit \/ (b = NoBus /\ wild.reading = 0)
             /\ \E r \in {Respond(c, temperatureReadings, built)} :
                  /\ request' = Requests[q]
                  /\ bus' = b
                  /\ idx' = c.idx
                  /\ evalInput' = c.evalInput
                  /\ transmit' = c.transmit
                  /\ error_type' = c.error_type
                  /\ temperatureReadings' = r.readings
                  /\ written' = r.written
                  /\ stopped' = TRUE
                  /\ trace' = Append(trace, "available") \o c.events
                                \o r.events
  /\ pc' = "wdt"
  /\ connsLeft' = connsLeft - 1
  /\ UNCHANGED <<clock, mesh_timer, led, wdt, wdtElapsed, failureDetected,
                 numberOfOneWireDevices, probes, ticksLeft>>

\* line 313 as a retry: a set failure flag is cleared and the watchdog is fed
WatchdogStepRetry ==
  /\ pc = "wdt"
  /\ ~Expired
  /\ wdtElapsed' = 0
  /\ failureDetected' = FALSE
  /\ trace' = Append(trace, "wdt_reset")
  /\ pc' = "loop"
  /\ request' = NoRequest
  /\ bus' = NoBus
  /\ idx' = 0
  /\ evalInput' = TRUE
  /\ transmit' = FALSE
  /\ error_type' = "ERR_UNKNOWN"
  /\ written' = <<>>
  /\ stopped' = FALSE
  /\ UNCHANGED <<clock, mesh_timer, led, wdt,
                 numberOfOneWireDevices, temperatureReadings, probes,
                 budget>>

\* line 313 without its condition: wdt_reset() in every iteration
WatchdogStepAlways ==
  /\ pc = "wdt"
  /\ ~Expired
  /\ wdtElapsed' = 0
  /\ trace' = Append(trace, "wdt_reset")
  /\ pc' = "loop"
  /\ request' = NoRequest
  /\ bus' = NoBus
  /\ idx' = 0
  /\ evalInput' = TRUE
  /\ transmit' = FALSE
  /\ error_type' = "ERR_UNKNOWN"
  /\ written' = <<>>
  /\ stopped' = FALSE
  /\ UNCHANGED <<clock, mesh_timer, led, wdt, failureDetected,
                 numberOfOneWireDevices, temperatureReadings, probes,
                 budget>>

\* line 313, and the end of the iteration
WatchdogStep ==
  /\ pc = "wdt"
  /\ ~Expired
  /\ wdtElapsed' = IF failureDetected THEN wdtElapsed ELSE 0
  /\ trace' = IF failureDetected THEN trace ELSE Append(trace, "wdt_reset")
  /\ pc' = "loop"
  /\ request' = NoRequest
  /\ bus' = NoBus
  /\ idx' = 0
  /\ evalInput' = TRUE
  /\ transmit' = FALSE
  /\ error_type' = "ERR_UNKNOWN"
  /\ written' = <<>>
  /\ stopped' = FALSE
  /\ UNCHANGED <<clock, mesh_timer, led, wdt, failureDetected,
                 numberOfOneWireDevices, temperatureReadings, probes,
                 budget>>

Next ==
  \/ \E ok \in BOOLEAN : SetupBegin(ok)
  \/ \E n \in DeviceCounts : SetupSensors(n)
  \/ \E d \in CoarseSteps : Tick(d)
  \/ WatchdogFire
  \/ RadioFailure
  \/ LoopTimer
  \/ \E ok \in BOOLEAN : Probe(ok)
  \/ RenewReturn
  \/ NoClient
  \/ ServiceClient(DOMAIN Requests)
  \/ WatchdogStep

Spec == Init /\ [][Next]_vars

(***************************************************************************)
(* The node after 49 days: millis() is about to wrap.  The clock moves in  *)
(* finer steps and the clients send one of two requests.                   *)
(***************************************************************************)
\* millis() and mesh_timer at the top of loop(): a check is due at once, or
\* the last check is a millisecond old
UptimeClocks ==
  {[clock |-> U32(Half - 1, Half - 15001), timer |-> U32(Half - 1, Half - 30003)],
   [clock |-> U32(Half - 1, Half - 7500), timer |-> U32(Half - 1, Half - 7501)]}

\* the readings an earlier refresh left, every sensor having answered
UptimeReadings ==
  saveTemperature(
    saveTemperature(
      saveTemperature([i \in KnownSensors |-> 0], 0,
                      [i \in KnownSensors |-> 337]),
      1, [i \in KnownSensors |-> 337]),
    2, [i \in KnownSensors |-> 337])

InitUptime ==
  /\ pc = "loop"
  /\ \E u \in UptimeClocks :
       /\ clock = u.clock
       /\ mesh_timer = u.timer
       /\ sinceProbe = U32Sub(u.clock, u.timer).lo
  /\ lastGap = 0 - 1
  /\ led = "HIGH"
  /\ wdt = "8s"
  /\ wdtElapsed = 0
  /\ failureDetected = FALSE
  /\ numberOfOneWireDevices = NumKnownSensors
  /\ temperatureReadings = UptimeReadings
  /\ ConnIdle
  /\ trace = <<"timer", "available", "wdt_reset">>
  /\ ticksLeft = MaxTicks
  /\ connsLeft = MaxConns

\* GET /temp, GET /other, POST /temp and the request a byte too long
FewRequests == {2, 5, 8, 14}

NextUptime ==
  \/ \E ok \in BOOLEAN : SetupBegin(ok)
  \/ \E n \in DeviceCounts : SetupSensors(n)
  \/ \E d \in TickSteps : Tick(d)
  \/ WatchdogFire
  \/ RadioFailure
  \/ LoopTimer
  \/ \E ok \in BOOLEAN : Probe(ok)
  \/ RenewReturn
  \/ NoClient
  \/ ServiceClient(FewRequests)
  \/ WatchdogStep

SpecUptime == InitUptime /\ [][NextUptime]_vars

(***************************************************************************)
(* The same node with its scheduling: the processor goes on executing      *)
(* loop(), a call of server.available() returns, time passes as long as    *)
(* the model has time left, and an expired watchdog resets the processor.  *)
(* Nothing says that mesh.renewAddress() returns or that a client comes.   *)
(***************************************************************************)
Executes ==
  \/ LoopTimer
  \/ \E ok \in BOOLEAN : Probe(ok)
  \/ NoClient
  \/ WatchdogStep

SpecFair ==
  /\ Init
  /\ [][Next]_vars
  /\ WF_vars(Executes)
  /\ SF_vars(\E d \in CoarseSteps : Tick(d))
  /\ WF_vars(WatchdogFire)

(***************************************************************************)
(* Properties                                                              *)
(***************************************************************************)
\* the iteration has served a connection and not yet reached line 313
Served == pc = "wdt" /\ stopped

Has(e) == \E i \in DOMAIN trace : trace[i] = e
Count(e) == Cardinality({i \in DOMAIN trace : trace[i] = e})

\* the request as a reader of the protocol sees it: the method is the first
\* space-delimited token, the path the second
SpacesOf(req) == {i \in DOMAIN req : req[i] = SP}
Method(req) ==
  IF SpacesOf(req) = {} THEN req
  ELSE SubSeq(req, 1, Least(SpacesOf(req)) - 1)
AfterMethod(req) ==
  IF SpacesOf(req) = {} THEN <<>>
  ELSE SubSeq(req, Least(SpacesOf(req)) + 1, Len(req))
HasPath(req) == SpacesOf(req) # {}
PathToken(req) == Method(AfterMethod(req))
PathEndsInSpace(req) == SpacesOf(AfterMethod(req)) # {}
Fits(req) == Len(req) <= HTTP_BUFFER_SIZE

\* the 200 response for the three known sensors and the readings T
FullResponse(T) ==
  Header200 \o LakeWater \o dtostrf(T[0]) \o BAR
            \o OutsideAir \o dtostrf(T[1]) \o BAR
            \o IntakePipe \o dtostrf(T[2]) \o CRLF

\* C1: a request longer than HTTP_BUFFER_SIZE stops the read loop with the
\* buffer full, is classified ERR_BUF_OVERFLOW, is answered with exactly the
\* 431 response, and neither the evaluation (strstr, strsep, strcmp) nor the
\* building of a 200 response takes place
C1_OverflowRejected ==
  (Served /\ Len(request) > HTTP_BUFFER_SIZE) =>
    /\ idx = HTTP_BUFFER_SIZE
    /\ ~evalInput
    /\ ~transmit
    /\ error_type = "ERR_BUF_OVERFLOW"
    /\ written = Resp431
    /\ Count("write") = 1
    /\ \A e \in {"strstr", "strsep", "strcmp", "strcmp_null",
                 "requestTemperatures", "strcpy", "save", "save_wild"} : ~Has(e)

C1_Witness ==
  Served /\ Len(request) > HTTP_BUFFER_SIZE /\ written = Resp431

\* C2: a request that fits and whose first token is not GET is classified
\* ERROR_NOT_GET_REQ and answered with exactly the 405 response
C2_NonGetIs405 ==
  (Served /\ Fits(request) /\ Method(request) # GET) =>
    (error_type = "ERROR_NOT_GET_REQ" /\ ~transmit /\ written = Resp405)

\* C3: a request that fits and whose first token is GET is answered 501 when
\* its path token is not exactly /temp, and is served when its path token is
\* /temp followed by a space
C3_PathDecides ==
  (Served /\ Fits(request) /\ Method(request) = GET) =>
    /\ (HasPath(request) /\ PathToken(request) = TEMP
          /\ PathEndsInSpace(request)) => transmit
    /\ (~HasPath(request) \/ PathToken(request) # TEMP) =>
         (error_type = "ERROR_NOT_TEMP_REQ" /\ ~transmit /\ written = Resp501)

\* C4: every 200 response is the header, the three label/value pairs in
\* declaration order with two bars between them, and CRLF, whatever device
\* count setup() found
C4_ThreePairs ==
  (Served /\ transmit) => written = FullResponse(temperatureReadings)

\* C5: an iteration resets the watchdog at most at its very end: not at all
\* when radio.failureDetected is set at that point, exactly once when it is
\* clear; nothing before line 313 resets it
C5_WatchdogOnceAtEnd ==
  /\ pc \in {"due", "renew", "server", "wdt"} => ~Has("wdt_reset")
  /\ (pc = "loop" /\ trace # <<>>) =>
       /\ failureDetected => ~Has("wdt_reset")
       /\ ~failureDetected =>
            (Count("wdt_reset") = 1 /\ trace[Len(trace)] = "wdt_reset")
       /\ Has("available")

\* an iteration that checked the mesh, served a connection and skipped the
\* reset because the flag was set
C5_Witness ==
  /\ pc = "loop"
  /\ failureDetected
  /\ Has("checkConnection")
  /\ Has("stop")
  /\ ~Has("wdt_reset")

\* C6: after a failed check the LED is switched off before
\* mesh.renewAddress() is called, is off while the call lasts and is switched
\* on as soon as it returns, before server.available(); after a successful
\* check the LED is switched on and mesh.renewAddress() is not called
C6_LedOffWhileRenewing ==
  /\ pc = "renew" =>
       /\ led = "LOW"
       /\ Len(trace) >= 3
       /\ SubSeq(trace, Len(trace) - 2, Len(trace))
            = <<"checkConnection", "led_low", "renewAddress">>
  /\ \A i \in DOMAIN trace :
       /\ trace[i] = "renewAddress" => (i > 1 /\ trace[i - 1] = "led_low")
       /\ trace[i] = "renewed" =>
            (i < Len(trace) /\ trace[i + 1] = "led_high")
       /\ trace[i] = "checkConnection" =>
            /\ i < Len(trace)
            /\ trace[i + 1] \in {"led_high", "led_low"}
            /\ trace[i + 1] = "led_high" => ~Has("renewAddress")
  /\ (pc \in {"server", "wdt"} /\ Has("checkConnection")) => led = "HIGH"

\* time has passed inside mesh.renewAddress() and the LED is still off
C6_Witness ==
  pc = "renew" /\ led = "LOW" /\ sinceProbe > 0

\* C7: more than MESH_CHECK_INTERVAL milliseconds lie between any two
\* consecutive calls of mesh.checkConnection(), whether the earlier one
\* succeeded or not, also when millis() wraps between them
C7_ProbeOncePerInterval ==
  lastGap = 0 - 1 \/ lastGap > MESH_CHECK_INTERVAL

\* two consecutive checks with the wrap of millis() between them: the later
\* one was stamped less than the gap after zero
C7_Witness ==
  /\ lastGap > MESH_CHECK_INTERVAL
  /\ sinceProbe = 0
  /\ mesh_timer.hi = 0
  /\ mesh_timer.lo < lastGap

\* C8: serving a connection with an error response calls neither
\* sensors.requestTemperatures() nor saveTemperature(), leaves
\* temperatureReadings as it was, writes the fixed text of the error and stops
\* the client after the write
C8_ErrorLeavesReadings ==
  [][(pc = "server" /\ pc' = "wdt" /\ stopped' /\ ~transmit') =>
       /\ temperatureReadings' = temperatureReadings
       /\ \A i \in DOMAIN trace' :
            trace'[i] \notin {"requestTemperatures", "save", "save_wild"}
       /\ \/ error_type' = "ERR_BUF_OVERFLOW" /\ written' = Resp431
          \/ error_type' = "ERROR_NOT_GET_REQ" /\ written' = Resp405
          \/ error_type' = "ERROR_NOT_TEMP_REQ" /\ written' = Resp501
          \/ error_type' = "ERR_UNKNOWN" /\ written' = Resp520
       /\ Len(trace') >= 2
       /\ SubSeq(trace', Len(trace') - 1, Len(trace')) = <<"write", "stop">>
    ]_vars

\* an error response has gone out and the readings of an earlier refresh
\* are still stored
C8_Witness ==
  /\ Served
  /\ ~transmit
  /\ written = Resp405
  /\ temperatureReadings = UptimeReadings

\* C9: a refresh leaves the reading of a sensor that does not answer as it
\* was and stores the reading of every sensor that answers, whatever the
\* other sensors do
C9_SensorsIndependent ==
  [][(pc = "server" /\ pc' = "wdt" /\ transmit') =>
       \A i \in KnownSensors :
         temperatureReadings'[i] =
           IF bus'[i] = Unreachable THEN temperatureReadings[i]
           ELSE IF i = 2 THEN bus'[i] - IntakeCorrection
           ELSE bus'[i]
    ]_vars

\* C10: every connection accepted is answered in the same iteration with
\* exactly one of the five responses and then stopped, and no call on the way
\* is undefined
C10_OneDefinedResponse ==
  Served =>
    /\ Count("write") = 1
    /\ Count("stop") = 1
    /\ trace[Len(trace)] = "stop"
    /\ \/ transmit /\ SubSeq(written, 1, Len(Header200)) = Header200
       \/ ~transmit /\ written \in {Resp431, Resp405, Resp501, Resp520}
    /\ ~Has("strcmp_null")

\* C11: the bytes read into buf, together with the terminator that strstr,
\* strsep and strcmp need behind them, fit into HTTP_BUFFER_SIZE bytes, and
\* so does the 200 response with its terminator
C11_BufferWithinCapacity ==
  Served =>
    /\ idx <= HTTP_BUFFER_SIZE
    /\ evalInput => idx + 1 <= HTTP_BUFFER_SIZE
    /\ transmit => Len(written) + 1 <= HTTP_BUFFER_SIZE

\* the number of the request being served
RequestNumber == CHOOSE q \in DOMAIN Requests : Requests[q] = request

\* C12: the request alone decides the outcome: whatever buf held before the
\* request was read, every execution that receives the same bytes classifies
\* them as this one does
C12_RequestAloneDecides ==
  Served =>
    \A c \in Verdicts[RequestNumber] :
      c.transmit = transmit /\ c.error_type = error_type

\* C13: once radio.failureDetected is set nothing in loop() clears it and
\* nothing feeds the watchdog any more, so the watchdog runs out and the
\* processor restarts (here: whenever the model has two clock steps left)
C13_FailureEndsInRestart ==
  /\ [][failureDetected =>
          /\ failureDetected' \/ pc' = "boot"
          /\ wdtElapsed' >= wdtElapsed \/ pc' = "boot"]_vars
  /\ (failureDetected /\ ticksLeft >= 2) ~> (pc = "boot")

\* the flag was set, iterations went by without a reset and the watchdog has
\* run out
C13_Witness ==
  /\ failureDetected
  /\ Expired
  /\ pc = "loop"
  /\ Has("available")
  /\ ~Has("wdt_reset")

\* C14: setup() disables the watchdog first, the watchdog stays off until
\* setup() has finished, whichever way it takes, and loop() runs with the
\* 8 s watchdog
C14_WatchdogOffDuringSetup ==
  /\ pc \in {"delay", "sensors"} =>
       (wdt = "off" /\ trace[1] = "wdt_disable")
  /\ pc \in {"loop", "due", "renew", "server", "wdt"} => wdt = "8s"

\* C15: a request is served only if its first token is GET and its second
\* token is /temp; the letters GET anywhere else never lead to a 200 response
C15_ServeOnlyGetTemp ==
  (Served /\ transmit) =>
    /\ Method(request) = GET
    /\ HasPath(request)
    /\ PathToken(request) = TEMP

\* the first position of e in the sequence of calls t, or 0
Pos(t, e) ==
  IF \E i \in DOMAIN t : t[i] = e
  THEN Least({i \in DOMAIN t : t[i] = e})
  ELSE 0

\* the label and value of known sensor i in a response for device count n
Pair(T, n, i) ==
  IF i < n
  THEN tempSensorNames[i + 1] \o dtostrf(T[i])
         \o (IF i < n - 1 THEN BAR ELSE <<>>)
  ELSE <<>>
KnownPairs(T, n) == Pair(T, n, 0) \o Pair(T, n, 1) \o Pair(T, n, 2)

\* C16: serving a request calls sensors.requestTemperatures() first, then
\* builds the response, writes it with one client.write() and then stops the
\* client; each known sensor the response reports was attempted before its
\* value was formatted: the value is the reading the bus gave if the sensor
\* answered and the reading stored before if it did not
C16_RefreshBuildWriteClose ==
  [][(pc = "server" /\ pc' = "wdt" /\ transmit') =>
       /\ Pos(trace', "requestTemperatures") > 0
       /\ Pos(trace', "requestTemperatures") < Pos(trace', "strcpy")
       /\ Pos(trace', "strcpy") < Pos(trace', "write")
       /\ Pos(trace', "write") = Len(trace') - 1
       /\ trace'[Len(trace')] = "stop"
       /\ Cardinality({i \in DOMAIN trace' : trace'[i] = "write"}) = 1
       /\ \A i \in DOMAIN trace' :
            trace'[i] \in {"save", "save_wild"} =>
              (Pos(trace', "strcpy") < i /\ i < Pos(trace', "write"))
       /\ \A i \in KnownSensors :
            i < numberOfOneWireDevices =>
              temperatureReadings'[i] =
                IF bus'[i] = Unreachable THEN temperatureReadings[i]
                ELSE IF i = 2 THEN bus'[i] - IntakeCorrection
                ELSE bus'[i]
       /\ Len(written') >= Len(Header200)
            + Len(KnownPairs(temperatureReadings', numberOfOneWireDevices))
       /\ SubSeq(written', 1,
                 Len(Header200)
                   + Len(KnownPairs(temperatureReadings',
                                    numberOfOneWireDevices)))
            = Header200 \o KnownPairs(temperatureReadings',
                                      numberOfOneWireDevices)
    ]_vars

\* a response that reports the reading stored before for a sensor that did
\* not answer and the new reading for one that did
C16_Witness ==
  /\ Served
  /\ transmit
  /\ numberOfOneWireDevices = NumKnownSensors
  /\ bus[0] = Unreachable
  /\ bus[1] # Unreachable
  /\ temperatureReadings[0] = UptimeReadings[0]
  /\ temperatureReadings[1] = bus[1]
  /\ written = FullResponse(temperatureReadings)

\* C17: refreshing and building the response use only the indices 0..2 of
\* tempSensors, tempSensorNames and temperatureReadings, whatever device
\* count setup() found
C17_IndicesWithinTables ==
  Served => ~Has("save_wild")

\* C18: no request is answered with the 520 response: whenever a connection
\* is not served, error_type has been set to one of the three errors
C18_NeverUnknown ==
  /\ written # Resp520
  /\ (Served /\ ~transmit) =>
       error_type \in {"ERR_BUF_OVERFLOW", "ERROR_NOT_GET_REQ",
                       "ERROR_NOT_TEMP_REQ"}

\* a GET for another path has been answered: the branch that sets
\* ERROR_NOT_TEMP_REQ was taken
C18_Witness ==
  /\ Served
  /\ request = ReqGetOther
  /\ error_type = "ERROR_NOT_TEMP_REQ"
  /\ written = Resp501

\* C19: while loop() runs and is not inside mesh.renewAddress() the LED is
\* on; setup() never reaches loop() with the LED off
C19_LedOnInLoop ==
  pc \in {"loop", "due", "server", "wdt"} => led = "HIGH"

\* a connection served right after a failed check and a rejoin
C19_Witness ==
  Served /\ led = "HIGH" /\ Has("renewed")

====
